---------------------------- MODULE Spec2Model ----------------------------
(***************************************************************************)
(* Model of the c2rust-refactor AST boilerplate generators                 *)
(* (c2rust-refactor/gen): the helpers of util.py and the three generators  *)
(* ast_deref.py, ast_names.py and list_node_ids.py.                        *)
(*                                                                         *)
(* Representation.  A Python string is modelled by the sequence of its     *)
(* lines (the string split on "\n"): the empty string is <<"">>, and       *)
(* '\n'.join(items) is the concatenation of the items' line sequences.     *)
(* A single line is a TLA+ string.  An optional value (None or a string)   *)
(* is a sequence of length 0 or 1.  An attribute mapping is a function     *)
(* from the attribute names present to optional values.                    *)
(***************************************************************************)
EXTENDS Naturals, Sequences, FiniteSets, TLC

VARIABLES
    \* ---- one helper call (specification SpecUtil) ----
    s,            \* the struct-shaped variant handed to the helper
    path,         \* struct_pattern's path argument
    suffix,       \* struct_pattern's suffix argument
    bind_mode,    \* struct_pattern's bind_mode argument
    pattern,      \* outcome of struct_pattern(s, path, suffix, bind_mode)
    kind_field,   \* outcome of find_kind_field(s)
    \* ---- generator runs (specification Spec) ----
    decls,        \* the declaration list handed to generate
    generator,    \* which module's generate is running
    now,          \* the wall clock datetime.now() reads
    run,          \* 1 for the first generate call on decls, 2 for the second
    pc,           \* position inside generate: "banner", "loop", "done"
    idx,          \* index of the next declaration of the for loop
    stamp,        \* the timestamp the banner of this run read
    blocks,       \* per processed declaration: the items generate yielded for it
    ret,          \* outcome of the generate call of this run
    first         \* outcome and timestamp of the first run, once it ended

utilVars == <<s, path, suffix, bind_mode, pattern, kind_field>>
genVars == <<decls, generator, now, run, pc, idx, stamp, blocks, ret, first>>
vars == <<s, path, suffix, bind_mode, pattern, kind_field,
          decls, generator, now, run, pc, idx, stamp, blocks, ret, first>>

----------------------------------------------------------------------------
(* Bounds of the model. *)

MaxFields == 3
MaxDecls == 2
MaxClock == 1

----------------------------------------------------------------------------
(* Optional values and attribute mappings. *)

None == <<>>
Some(v) == <<v>>

\* attrs.get(key): the value stored under key, None when the key is absent.
AttrsGet(attrs, key) == IF key \in DOMAIN attrs THEN attrs[key] ELSE None

\* A mapping holding each key of keys as a value-less marker (#[key]).
Markers(keys) == [k \in keys |-> None]

----------------------------------------------------------------------------
(* Declaration model (constructors of the ast module). *)

Field(name, attrs) == [name |-> name, attrs |-> attrs]

Struct(name, fields, is_tuple, attrs) ==
    [type |-> "Struct", name |-> name, fields |-> fields,
     is_tuple |-> is_tuple, attrs |-> attrs]

Enum(name, variants, attrs) ==
    [type |-> "Enum", name |-> name, variants |-> variants, attrs |-> attrs]

Flag(name, attrs) == [type |-> "Flag", name |-> name, attrs |-> attrs]

\* isinstance(d, (Struct, Enum))
IsStructOrEnum(d) == d.type \in {"Struct", "Enum"}

\* variants_paths(d): the (variant, path) pairs of a declaration, in order.
variants_paths(d) ==
    IF d.type = "Struct"
    THEN << <<d, d.name>> >>
    ELSE [i \in 1..Len(d.variants) |->
            <<d.variants[i], d.name \o "::" \o d.variants[i].name>>]

----------------------------------------------------------------------------
(* util.py: joining decorators. *)

RECURSIVE Flatten(_)
Flatten(items) ==
    IF items = <<>> THEN <<>> ELSE Head(items) \o Flatten(Tail(items))

\* linewise: '\n'.join(items), every item a string given by its lines.
linewise(items) == IF items = <<>> THEN <<"">> ELSE Flatten(items)

\* A string without line break, as the one-line string it is.
Line(str) == <<str>>

RECURSIVE JoinStr(_, _)
JoinStr(items, sep) ==
    IF items = <<>> THEN ""
    ELSE IF Len(items) = 1 THEN items[1]
    ELSE items[1] \o sep \o JoinStr(Tail(items), sep)

\* comma_sep: ', '.join(items), every item a one-line string.
comma_sep(items) == JoinStr(items, ", ")

----------------------------------------------------------------------------
(* util.py: struct_pattern. *)

DefaultSuffix == ""
DefaultBindMode == "ref "

struct_fields(fields, sfx, bm) ==
    comma_sep([i \in 1..Len(fields) |->
        fields[i].name \o ": " \o bm \o fields[i].name \o sfx])

tuple_fields(fields, sfx, bm) ==
    comma_sep([i \in 1..Len(fields) |-> bm \o fields[i].name \o sfx])

\* Mutant: the zero-field tuple case is not special-cased.
struct_pattern_noarity(v, p, sfx, bm) ==
    IF ~v.is_tuple
    THEN p \o " { " \o struct_fields(v.fields, sfx, bm) \o " }"
    ELSE p \o "(" \o tuple_fields(v.fields, sfx, bm) \o ")"

struct_pattern(v, p, sfx, bm) ==
    IF ~v.is_tuple
    THEN p \o " { " \o struct_fields(v.fields, sfx, bm) \o " }"
    ELSE IF Len(v.fields) = 0
    THEN p
    ELSE p \o "(" \o tuple_fields(v.fields, sfx, bm) \o ")"

----------------------------------------------------------------------------
(* util.py: find_kind_field. *)

Digit(n) == CASE n = 0 -> "0" [] n = 1 -> "1" [] n = 2 -> "2" [] n = 3 -> "3"
              [] n = 4 -> "4" [] n = 5 -> "5" [] n = 6 -> "6" [] n = 7 -> "7"
              [] n = 8 -> "8" [] n = 9 -> "9"

\* '%d' % n for a natural number n.
RECURSIVE FormatD(_)
FormatD(n) == IF n < 10 THEN Digit(n) ELSE FormatD(n \div 10) \o Digit(n % 10)

Returned(v) == [raised |-> FALSE, value |-> v]
Raised(exc, msg) == [raised |-> TRUE, exc |-> exc, msg |-> msg]

\* [f.name for f in s.fields if 'kind' in f.attrs]
marked_fields(v) ==
    LET IsMarked(f) == "kind" \in DOMAIN f.attrs
        kept == SelectSeq(v.fields, IsMarked)
    IN  [i \in 1..Len(kept) |-> kept[i].name]

\* next((f.name for f in s.fields if f.name == 'kind'), None)
FirstNamedKind(v) ==
    LET IsNamedKind(f) == f.name = "kind"
        kept == SelectSeq(v.fields, IsNamedKind)
    IN  IF kept = <<>> THEN None ELSE Some(kept[1].name)

\* Mutant: the no_kind marker is not consulted.
find_kind_field_ignores_no_kind(v) ==
    LET marked == marked_fields(v)
    IN  IF Len(marked) = 1 THEN Returned(Some(marked[1]))
        ELSE IF Len(marked) > 1
        THEN Raised("ValueError",
                "struct " \o v.name \o " has " \o FormatD(Len(marked))
                \o " fields marked #[kind] (expected 0 or 1)")
        ELSE Returned(FirstNamedKind(v))

\* Mutant: the error reports the number of fields instead of the number of
\* marked fields.
find_kind_field_counts_fields(v) ==
    LET marked == marked_fields(v)
    IN  IF "no_kind" \in DOMAIN v.attrs THEN Returned(None)
        ELSE IF Len(marked) = 1 THEN Returned(Some(marked[1]))
        ELSE IF Len(marked) > 1
        THEN Raised("ValueError",
                "struct " \o v.name \o " has " \o FormatD(Len(v.fields))
                \o " fields marked #[kind] (expected 0 or 1)")
        ELSE Returned(FirstNamedKind(v))

\* Mutant: the naming convention is tried before the marked fields.
find_kind_field_name_first(v) ==
    LET marked == marked_fields(v)
    IN  IF "no_kind" \in DOMAIN v.attrs THEN Returned(None)
        ELSE IF FirstNamedKind(v) # None THEN Returned(FirstNamedKind(v))
        ELSE IF Len(marked) = 1 THEN Returned(Some(marked[1]))
        ELSE IF Len(marked) > 1
        THEN Raised("ValueError",
                "struct " \o v.name \o " has " \o FormatD(Len(marked))
                \o " fields marked #[kind] (expected 0 or 1)")
        ELSE Returned(None)

find_kind_field(v) ==
    LET marked == marked_fields(v)
    IN  IF "no_kind" \in DOMAIN v.attrs THEN Returned(None)
        ELSE IF Len(marked) = 1 THEN Returned(Some(marked[1]))
        ELSE IF Len(marked) > 1
        THEN Raised("ValueError",
                "struct " \o v.name \o " has " \o FormatD(Len(marked))
                \o " fields marked #[kind] (expected 0 or 1)")
        ELSE Returned(FirstNamedKind(v))

----------------------------------------------------------------------------
(* Generators: shared pieces. *)

\* The items a generator function yields when each is one line.
Items(lines) == [i \in DOMAIN lines |-> Line(lines[i])]

\* Truth value of an optional string in an if statement.
Truthy(opt) == opt # None /\ opt[1] # ""

\* str(datetime.now()) for the clock value t.
FormatTime(t) == "T" \o FormatD(t)

\* The three items every generate yields first; t is the clock value read.
BannerItems(t) ==
    <<Line("// AUTOMATICALLY GENERATED - DO NOT EDIT"),
      Line("// Produced " \o FormatTime(t) \o " by process_ast.py"),
      Line("")>>

\* textwrap.indent(text, prefix): the prefix is added to every line that
\* is not blank.
indent(text, prefix) ==
    [i \in DOMAIN text |-> IF text[i] = "" THEN text[i] ELSE prefix \o text[i]]

----------------------------------------------------------------------------
(* ast_deref.py *)

do_ast_deref_impl(d) ==
    LET supported == "rewrite_seq_item" \in DOMAIN d.attrs
    IN  linewise(Items(
          <<"#[allow(unused)]",
            "impl AstDeref for " \o d.name \o " {",
            "  type Target = Self;",
            "  fn ast_deref(&self) -> &Self { self }",
            "}">>))

----------------------------------------------------------------------------
(* ast_names.py *)

\* The lines one iteration of the loop over variants_paths(d) yields, or the
\* error find_kind_field raises in it.
names_arm(d, v, p) ==
    LET opening == <<"      &" \o struct_pattern(v, p, DefaultSuffix, DefaultBindMode)
                       \o " => {",
                     "        \"" \o v.name \o "\".to_string()">>
        closing == <<"      }">>
    IN  IF d.type = "Struct"
        THEN LET kf == find_kind_field(d)
             IN  IF kf.raised THEN kf
                 ELSE IF Truthy(kf.value)
                 THEN Returned(opening
                        \o <<"        + \":\" + &self." \o kf.value[1]
                               \o ".ast_name()">>
                        \o closing)
                 ELSE Returned(opening \o closing)
        ELSE Returned(opening \o closing)

\* Mutant: an error of find_kind_field is swallowed and the arm is emitted
\* without a kind suffix.
do_ast_names_impl_swallow(d) ==
    IF ~IsStructOrEnum(d) THEN Returned(linewise(<<>>))
    ELSE
      LET vps == variants_paths(d)
          arms == [i \in DOMAIN vps |->
                     LET a == names_arm(d, vps[i][1], vps[i][2])
                     IN  IF a.raised
                         THEN <<"      &" \o struct_pattern(vps[i][1], vps[i][2],
                                   DefaultSuffix, DefaultBindMode) \o " => {",
                                "        \"" \o vps[i][1].name \o "\".to_string()",
                                "      }">>
                         ELSE a.value]
      IN  Returned(linewise(Items(
               <<"#[allow(unused, non_shorthand_field_patterns)]",
                 "impl AstName for " \o d.name \o " {",
                 "  fn ast_name(&self) -> String {",
                 "    match self {">>
               \o Flatten(arms)
               \o <<"    }", "  }", "}">>)))

\* Mutant: the kind field is looked up on every variant, enum cases
\* included.
do_ast_names_impl_per_case(d) ==
    IF ~IsStructOrEnum(d) THEN Returned(linewise(<<>>))
    ELSE
      LET vps == variants_paths(d)
          arms == [i \in DOMAIN vps |->
                     names_arm(vps[i][1], vps[i][1], vps[i][2])]
          failed == {i \in DOMAIN vps : arms[i].raised}
      IN  IF failed # {}
          THEN arms[CHOOSE i \in failed : \A j \in failed : i <= j]
          ELSE Returned(linewise(Items(
                 <<"#[allow(unused, non_shorthand_field_patterns)]",
                   "impl AstName for " \o d.name \o " {",
                   "  fn ast_name(&self) -> String {",
                   "    match self {">>
                 \o Flatten([i \in DOMAIN vps |-> arms[i].value])
                 \o <<"    }", "  }", "}">>)))

\* The string do_ast_names_impl(d) returns, or the error it raises.
do_ast_names_impl(d) ==
    IF ~IsStructOrEnum(d) THEN Returned(linewise(<<>>))
    ELSE
      LET vps == variants_paths(d)
          arms == [i \in DOMAIN vps |-> names_arm(d, vps[i][1], vps[i][2])]
          failed == {i \in DOMAIN vps : arms[i].raised}
      IN  IF failed # {}
          THEN arms[CHOOSE i \in failed : \A j \in failed : i <= j]
          ELSE Returned(linewise(Items(
                 <<"#[allow(unused, non_shorthand_field_patterns)]",
                   "impl AstName for " \o d.name \o " {",
                   "  fn ast_name(&self) -> String {",
                   "    match self {">>
                 \o Flatten([i \in DOMAIN vps |-> arms[i].value])
                 \o <<"    }", "  }", "}">>)))

----------------------------------------------------------------------------
(* list_node_ids.py *)

\* The lines one iteration of list_rec's loop over variants_paths(se) yields.
list_rec_arm(v, p) ==
    <<"  &" \o struct_pattern(v, p, DefaultSuffix, DefaultBindMode) \o " => {">>
    \o [i \in 1..Len(v.fields) |->
          "    ListNodeIds::add_node_ids(" \o v.fields[i].name
          \o ", node_id_list);"]
    \o <<"  }">>

\* Mutant: an arm whose path repeats the path of an earlier arm is dropped.
list_rec_dedup(se, target) ==
    LET vps == variants_paths(se)
        Fresh(i) == \A j \in 1..(i - 1) : vps[j][2] # vps[i][2]
    IN  linewise(Items(
          <<"match " \o target \o " {">>
          \o Flatten([i \in DOMAIN vps |->
                IF Fresh(i) THEN list_rec_arm(vps[i][1], vps[i][2]) ELSE <<>>])
          \o <<"}">>))

list_rec(se, target) ==
    LET vps == variants_paths(se)
    IN  linewise(Items(
          <<"match " \o target \o " {">>
          \o Flatten([i \in DOMAIN vps |-> list_rec_arm(vps[i][1], vps[i][2])])
          \o <<"}">>))

list_impl(se) ==
    linewise(
      <<Line("#[allow(unused, non_shorthand_field_patterns)]"),
        Line("impl ListNodeIds for " \o se.name \o " {"),
        Line("  fn add_node_ids(&self, node_id_list: &mut Vec<NodeId>) {"),
        indent(list_rec(se, "self"), "    "),
        Line("  }"),
        Line("}")>>)

dummy_impl(se) ==
    linewise(Items(
      <<"#[allow(unused, non_shorthand_field_patterns)]",
        "impl ListNodeIds for " \o se.name \o " {",
        "  fn add_node_ids(&self, _node_id_list: &mut Vec<NodeId>) {",
        "    // Do nothing",
        "  }",
        "}">>))

\* d.attrs.get('list_node_ids') == 'custom'
IsCustom(d) == AttrsGet(d.attrs, "list_node_ids") = Some("custom")

\* Mutant: the override is taken from the presence of the attribute, whatever
\* its value.
list_node_ids_items_any_value(d) ==
    IF "list_node_ids" \in DOMAIN d.attrs THEN <<>>
    ELSE IF IsStructOrEnum(d) THEN <<list_impl(d)>>
    ELSE <<dummy_impl(d)>>

\* The items one iteration of generate's loop yields for declaration d.
list_node_ids_items(d) ==
    IF IsCustom(d) THEN <<>>
    ELSE IF IsStructOrEnum(d) THEN <<list_impl(d)>>
    ELSE <<dummy_impl(d)>>

----------------------------------------------------------------------------
(* Inputs of the helper calls. *)

FieldNames == {"kind", "x", "y"}

\* A field is unmarked or carries the #[kind] marker.
Fields == {Field(n, Markers(m)) : n \in FieldNames, m \in {{}, {"kind"}}}

RECURSIVE SeqsUpTo(_, _)
SeqsUpTo(S, n) ==
    IF n = 0 THEN {<<>>}
    ELSE LET shorter == SeqsUpTo(S, n - 1)
         IN  shorter \cup {Append(q, e) : q \in shorter, e \in S}

FieldLists == SeqsUpTo(Fields, MaxFields)

StructAttrs == {Markers(m) : m \in SUBSET {"no_kind", "rewrite_seq_item"}}

Structs ==
    {Struct("S", fs, t, a) : fs \in FieldLists, t \in BOOLEAN, a \in StructAttrs}

Suffixes == {DefaultSuffix, "_new"}
BindModes == {DefaultBindMode, "ref mut "}

NotCalled == [called |-> FALSE]
Outcome(r) == [called |-> TRUE, result |-> r]

\* Values of the generator variables while only helpers are exercised.
GenIdle ==
    /\ decls = <<>>
    /\ generator = "none"
    /\ now = 0
    /\ run = 0
    /\ pc = "idle"
    /\ idx = 0
    /\ stamp = None
    /\ blocks = <<>>
    /\ ret = NotCalled
    /\ first = NotCalled

InitUtil ==
    /\ s \in Structs
    /\ path = "P"
    /\ suffix \in Suffixes
    /\ bind_mode \in BindModes
    /\ pattern = NotCalled
    /\ kind_field = NotCalled
    /\ GenIdle

\* A caller evaluates struct_pattern(s, path, suffix, bind_mode).
CallStructPattern ==
    /\ ~pattern.called
    /\ pattern' = Outcome(struct_pattern(s, path, suffix, bind_mode))
    /\ UNCHANGED <<s, path, suffix, bind_mode, kind_field>>
    /\ UNCHANGED genVars

\* A caller evaluates find_kind_field(s).
CallFindKindField ==
    /\ ~kind_field.called
    /\ kind_field' = Outcome(find_kind_field(s))
    /\ UNCHANGED <<s, path, suffix, bind_mode, pattern>>
    /\ UNCHANGED genVars

NextUtil == CallStructPattern \/ CallFindKindField

SpecUtil == InitUtil /\ [][NextUtil]_vars

----------------------------------------------------------------------------
(* Inputs of the generator runs. *)

Unmarked(n) == Field(n, Markers({}))
Marked(n) == Field(n, Markers({"kind"}))

NoAttrs == Markers({})

\* Declaration shapes: a tuple struct with a field named kind, a struct with
\* one marked field beside a field named kind, a struct with two marked
\* fields, an enum without cases, an enum whose cases differ in shape, carry
\* kind fields and repeat a case name, and a declaration that is neither.
Shapes ==
    { Struct("S", <<Unmarked("x"), Unmarked("kind")>>, TRUE, NoAttrs),
      Struct("P", <<Unmarked("kind"), Marked("x")>>, FALSE, NoAttrs),
      Struct("T", <<Marked("x"), Marked("kind")>>, FALSE, NoAttrs),
      Enum("N", <<>>, NoAttrs),
      Enum("E", << Struct("A", <<Unmarked("x")>>, TRUE, NoAttrs),
                   Struct("B", <<Marked("x"), Unmarked("kind")>>, FALSE, NoAttrs),
                   Struct("A", <<>>, TRUE, NoAttrs) >>, NoAttrs),
      Flag("F", NoAttrs) }

\* Attribute mappings of a declaration.
DeclAttrs ==
    { NoAttrs,
      Markers({"no_kind", "rewrite_seq_item"}),
      "list_node_ids" :> Some("custom") }

Decls ==
    {[d EXCEPT !.attrs = a] : d \in Shapes, a \in DeclAttrs}
    \cup {Flag("G", "list_node_ids" :> Some("manual"))}

Generators == {"ast_deref", "ast_names", "list_node_ids"}

\* Values of the helper-call variables while generators run.
UtilIdle ==
    /\ s = Struct("S", <<>>, FALSE, NoAttrs)
    /\ path = ""
    /\ suffix = DefaultSuffix
    /\ bind_mode = DefaultBindMode
    /\ pattern = NotCalled
    /\ kind_field = NotCalled

Init ==
    /\ decls \in SeqsUpTo(Decls, MaxDecls)
    /\ generator \in Generators
    /\ now = 0
    /\ run = 1
    /\ pc = "banner"
    /\ idx = 1
    /\ stamp = None
    /\ blocks = <<>>
    /\ ret = NotCalled
    /\ first = NotCalled
    /\ UtilIdle

----------------------------------------------------------------------------
(* Generator runs: generate(decls) of the three modules, one step per      *)
(* resumption of the generator by the join of linewise.                    *)

\* Time passes before generate reads the clock.
Tick ==
    /\ pc = "banner"
    /\ now < MaxClock
    /\ now' = now + 1
    /\ UNCHANGED <<decls, generator, run, pc, idx, stamp, blocks, ret, first>>
    /\ UNCHANGED utilVars

\* generate yields its banner: datetime.now() is read here.  The three
\* modules' generate functions start with the same three yields.
Banner ==
    /\ pc = "banner"
    /\ stamp' = Some(now)
    /\ pc' = "loop"
    /\ UNCHANGED <<decls, generator, now, run, idx, blocks, ret, first>>
    /\ UNCHANGED utilVars

\* ast_deref.generate: one iteration of "for d in decls".
DerefLoop ==
    /\ generator = "ast_deref"
    /\ pc = "loop"
    /\ idx <= Len(decls)
    /\ blocks' = Append(blocks, <<do_ast_deref_impl(decls[idx])>>)
    /\ idx' = idx + 1
    /\ UNCHANGED <<decls, generator, now, run, pc, stamp, ret, first>>
    /\ UNCHANGED utilVars

\* Mutant: the loop consumes the declaration list it walks.
NamesLoop_consuming ==
    /\ generator = "ast_names"
    /\ pc = "loop"
    /\ idx <= Len(decls)
    /\ LET r == do_ast_names_impl(decls[idx])
       IN  IF r.raised
           THEN /\ ret' = Outcome(r)
                /\ pc' = "done"
                /\ UNCHANGED <<decls, idx, blocks>>
           ELSE /\ blocks' = Append(blocks, <<r.value>>)
                /\ decls' = Tail(decls)
                /\ UNCHANGED <<idx, ret, pc>>
    /\ UNCHANGED <<generator, now, run, stamp, first>>
    /\ UNCHANGED utilVars

\* ast_names.generate: one iteration of "for d in decls"; an error raised by
\* do_ast_names_impl leaves generate and the join that drives it.
NamesLoop ==
    /\ generator = "ast_names"
    /\ pc = "loop"
    /\ idx <= Len(decls)
    /\ LET r == do_ast_names_impl(decls[idx])
       IN  IF r.raised
           THEN /\ ret' = Outcome(r)
                /\ pc' = "done"
                /\ UNCHANGED <<idx, blocks>>
           ELSE /\ blocks' = Append(blocks, <<r.value>>)
                /\ idx' = idx + 1
                /\ UNCHANGED <<ret, pc>>
    /\ UNCHANGED <<decls, generator, now, run, stamp, first>>
    /\ UNCHANGED utilVars

\* list_node_ids.generate: one iteration of "for d in decls".
ListLoop ==
    /\ generator = "list_node_ids"
    /\ pc = "loop"
    /\ idx <= Len(decls)
    /\ blocks' = Append(blocks, list_node_ids_items(decls[idx]))
    /\ idx' = idx + 1
    /\ UNCHANGED <<decls, generator, now, run, pc, stamp, ret, first>>
    /\ UNCHANGED utilVars

\* The generator is exhausted: linewise joins what was yielded and returns.
Return ==
    /\ pc = "loop"
    /\ idx > Len(decls)
    /\ ret' = Outcome(Returned(linewise(BannerItems(stamp[1]) \o Flatten(blocks))))
    /\ pc' = "done"
    /\ UNCHANGED <<decls, generator, now, run, idx, stamp, blocks, first>>
    /\ UNCHANGED utilVars

\* The caller runs the same generator on the same declaration list again.
Again ==
    /\ pc = "done"
    /\ run = 1
    /\ first' = [called |-> TRUE, result |-> ret.result, stamp |-> stamp]
    /\ run' = 2
    /\ pc' = "banner"
    /\ idx' = 1
    /\ stamp' = None
    /\ blocks' = <<>>
    /\ ret' = NotCalled
    /\ UNCHANGED <<decls, generator, now>>
    /\ UNCHANGED utilVars

Next ==
    \/ Tick
    \/ Banner
    \/ DerefLoop
    \/ NamesLoop
    \/ ListLoop
    \/ Return
    \/ Again

Spec == Init /\ [][Next]_vars

----------------------------------------------------------------------------
(* Claims about find_kind_field (specification SpecUtil). *)

\* The number of fields of v carrying the kind marker.
NumMarked(v) ==
    Cardinality({i \in DOMAIN v.fields : "kind" \in DOMAIN v.fields[i].attrs})

HasNoKind(v) == "no_kind" \in DOMAIN v.attrs

\* The ambiguous-kind-field error naming struct v and its count of marked
\* fields.
AmbiguousKindField(v) ==
    Raised("ValueError",
        "struct " \o v.name \o " has " \o ToString(NumMarked(v))
        \o " fields marked #[kind] (expected 0 or 1)")

\* C4 as stated: every struct with two or more fields marked kind, whatever
\* its other attributes are, makes find_kind_field raise the ambiguous-kind
\* error naming the struct and the number of marked fields.
C4_Original ==
    (kind_field.called /\ NumMarked(s) >= 2)
        => kind_field.result = AmbiguousKindField(s)

\* C4 amended: every struct with two or more fields marked kind that does
\* not carry the no_kind marker makes find_kind_field raise the
\* ambiguous-kind error naming the struct and the number of marked fields.
C4_Amended ==
    (kind_field.called /\ NumMarked(s) >= 2 /\ ~HasNoKind(s))
        => kind_field.result = AmbiguousKindField(s)

C4_Witness ==
    /\ kind_field.called
    /\ NumMarked(s) = 2
    /\ Len(s.fields) = 3
    /\ ~HasNoKind(s)
    /\ "rewrite_seq_item" \in DOMAIN s.attrs
    /\ kind_field.result.raised

\* C6: for every struct carrying the no_kind marker find_kind_field returns
\* None, whatever its fields are (one marked field, a field named kind, two
\* or more marked fields), and raises nothing.
C6_NoKindReturnsNone ==
    (kind_field.called /\ HasNoKind(s)) => kind_field.result = Returned(None)

C6_Witness ==
    /\ kind_field.called
    /\ HasNoKind(s)
    /\ NumMarked(s) >= 2
    /\ \E i \in DOMAIN s.fields : s.fields[i].name = "kind"
    /\ kind_field.result = Returned(None)

\* The three cases of C7 for a struct v and the outcome r of find_kind_field.
C7_Cases(v, r) ==
    /\ NumMarked(v) = 1 =>
         \E i \in DOMAIN v.fields :
            /\ "kind" \in DOMAIN v.fields[i].attrs
            /\ r = Returned(Some(v.fields[i].name))
    /\ (NumMarked(v) = 0 /\ \E i \in DOMAIN v.fields : v.fields[i].name = "kind")
         => r = Returned(Some("kind"))
    /\ (NumMarked(v) = 0 /\ \A i \in DOMAIN v.fields : v.fields[i].name # "kind")
         => r = Returned(None)

\* C7 as stated: for every struct, with exactly one marked field
\* find_kind_field returns that field's name, with no marked field and a
\* field named kind it returns "kind", and with neither it returns None.
C7_Original == kind_field.called => C7_Cases(s, kind_field.result)

\* C7 amended: the three cases hold for every struct that does not carry
\* the no_kind marker.
C7_Amended ==
    (kind_field.called /\ ~HasNoKind(s)) => C7_Cases(s, kind_field.result)

C7_Witness ==
    /\ kind_field.called
    /\ ~HasNoKind(s)
    /\ NumMarked(s) = 1
    /\ \E i \in DOMAIN s.fields :
          s.fields[i].name = "kind" /\ "kind" \notin DOMAIN s.fields[i].attrs
    /\ kind_field.result = Returned(Some("x"))

----------------------------------------------------------------------------
(* Claim about struct_pattern (specification SpecUtil). *)

\* The bindings of a pattern, separated by ", ", built from the last one.
RECURSIVE C8_Bindings(_)
C8_Bindings(bs) ==
    IF bs = <<>> THEN ""
    ELSE IF Len(bs) = 1 THEN bs[1]
    ELSE C8_Bindings(SubSeq(bs, 1, Len(bs) - 1)) \o ", " \o bs[Len(bs)]

\* The pattern C8 describes for variant v.
C8_Expected(v, p, S, B) ==
    LET named == [i \in DOMAIN v.fields |->
                    v.fields[i].name \o ": " \o B \o v.fields[i].name \o S]
        positional == [i \in DOMAIN v.fields |-> B \o v.fields[i].name \o S]
    IN  CASE ~v.is_tuple -> p \o " { " \o C8_Bindings(named) \o " }"
          [] v.is_tuple /\ v.fields = <<>> -> p
          [] v.is_tuple /\ v.fields # <<>> ->
               p \o "(" \o C8_Bindings(positional) \o ")"

\* C8: struct_pattern returns 'path { n1: B+n1+S, ... }' for a variant that
\* is not tuple-shaped ('path {  }' without fields), the bare path for a
\* tuple-shaped variant without fields, and 'path(B+n1+S, ...)' for a
\* tuple-shaped variant with fields: one binding per field, in declaration
\* order.
C8_StructPattern ==
    pattern.called =>
        /\ pattern.result = C8_Expected(s, path, suffix, bind_mode)
        /\ (~s.is_tuple /\ s.fields = <<>>) => pattern.result = path \o " {  }"

C8_Witness ==
    /\ pattern.called
    /\ s.is_tuple
    /\ Len(s.fields) = 2
    /\ s.fields[1].name # s.fields[2].name
    /\ suffix = "_new"
    /\ bind_mode = DefaultBindMode
    /\ pattern.result = "P(ref " \o s.fields[1].name \o "_new, ref "
                          \o s.fields[2].name \o "_new)"

----------------------------------------------------------------------------
(* Claims about the generators (specification Spec). *)

\* The declarations whose loop iteration has completed in this run.
Processed == 1..Len(blocks)

\* The lines of block B between its "match self {" line and the three lines
\* that close the match, the function and the impl.
MatchBody(B) ==
    LET m == CHOOSE k \in DOMAIN B : B[k] = "    match self {"
    IN  SubSeq(B, m + 1, Len(B) - 3)

HasMatch(B) == \E k \in DOMAIN B : B[k] = "    match self {"

\* The line that opens the arm of variant v under path p.
ArmOpen(v, p) ==
    "      &" \o C8_Expected(v, p, DefaultSuffix, DefaultBindMode) \o " => {"

ArmClose == "      }"

\* The variants of declaration d, in declaration order: the struct itself, or
\* the cases of the enum.
VariantsOf(d) == IF d.type = "Struct" THEN <<d>> ELSE d.variants

\* The pattern path of variant j of declaration d.
PathOf(d, j) ==
    IF d.type = "Struct" THEN d.name ELSE d.name \o "::" \o d.variants[j].name

\* C1: the deref-passthrough generator emits the AstDeref block exactly for
\* the declarations whose attrs contain rewrite_seq_item, and nothing for
\* every other declaration.
C1_OnlyMarkedEmit ==
    generator = "ast_deref" =>
        \A i \in Processed :
            IF "rewrite_seq_item" \in DOMAIN decls[i].attrs
            THEN /\ Len(blocks[i]) = 1
                 /\ blocks[i][1][2] = "impl AstDeref for " \o decls[i].name \o " {"
            ELSE blocks[i] = <<>>

\* The lines of the arm of a name-stringification match for variant j of d;
\* kf is the kind field the arm appends (None: the bare name only).
NamesArm(d, j, kf) ==
    <<ArmOpen(VariantsOf(d)[j], PathOf(d, j)),
      "        \"" \o VariantsOf(d)[j].name \o "\".to_string()">>
    \o (IF kf = None THEN <<>>
        ELSE <<"        + \":\" + &self." \o kf[1] \o ".ast_name()">>)
    \o <<ArmClose>>

\* C2 as stated: in the name-stringification match of an Enum every case is
\* checked for its own kind field: the arm of a case c appends ":" and the
\* ast_name of field find_kind_field(c), and returns the bare case name when
\* c has no kind field.
C2_Original ==
    generator = "ast_names" =>
        \A i \in Processed :
            decls[i].type = "Enum" =>
                MatchBody(blocks[i][1]) =
                    Flatten([j \in DOMAIN decls[i].variants |->
                        NamesArm(decls[i], j,
                            find_kind_field(decls[i].variants[j]).value)])

\* C2 amended: in the name-stringification match of an Enum every arm
\* returns the bare case name only, also for a case that has a kind field;
\* the ":" + ast_name suffix is generated only in the arm of a Struct
\* declaration d, for the field find_kind_field(d) returns.
C2_Amended ==
    generator = "ast_names" =>
        \A i \in Processed :
            /\ decls[i].type = "Enum" =>
                 MatchBody(blocks[i][1]) =
                    Flatten([j \in DOMAIN decls[i].variants |->
                        NamesArm(decls[i], j, None)])
            /\ decls[i].type = "Struct" =>
                 MatchBody(blocks[i][1]) =
                    NamesArm(decls[i], 1, find_kind_field(decls[i]).value)

C2_Witness ==
    /\ generator = "ast_names"
    /\ \E i \in Processed :
          /\ decls[i].type = "Enum"
          /\ \E j \in DOMAIN decls[i].variants :
                find_kind_field(decls[i].variants[j]) = Returned(Some("x"))
          /\ HasMatch(blocks[i][1])
    /\ \E i \in Processed :
          /\ decls[i].type = "Struct"
          /\ find_kind_field(decls[i]) = Returned(Some("x"))

\* list_node_ids = "custom" among the attrs of d.
HasCustom(d) ==
    /\ "list_node_ids" \in DOMAIN d.attrs
    /\ d.attrs["list_node_ids"] = <<"custom">>

\* C3 as stated: the child-node-id generator emits, for every declaration
\* without list_node_ids = "custom" (those that are neither Struct nor Enum
\* included), a block that contains a match, and nothing for a declaration
\* with list_node_ids = "custom".
C3_Original ==
    generator = "list_node_ids" =>
        \A i \in Processed :
            IF HasCustom(decls[i])
            THEN blocks[i] = <<>>
            ELSE /\ Len(blocks[i]) = 1
                 /\ HasMatch(blocks[i][1])

\* C3 amended: for every declaration without list_node_ids = "custom" the
\* child-node-id generator emits one block; for a Struct or Enum the block
\* contains a match, which has arms exactly when the declaration has
\* variants; for a declaration that is neither the block is the no-op
\* implementation and contains no match.  For a declaration with
\* list_node_ids = "custom" it emits nothing.
C3_Amended ==
    generator = "list_node_ids" =>
        \A i \in Processed :
            IF HasCustom(decls[i])
            THEN blocks[i] = <<>>
            ELSE /\ Len(blocks[i]) = 1
                 /\ blocks[i][1][2] = "impl ListNodeIds for " \o decls[i].name \o " {"
                 /\ HasMatch(blocks[i][1]) <=> decls[i].type \in {"Struct", "Enum"}
                 /\ decls[i].type \in {"Struct", "Enum"} =>
                      (MatchBody(blocks[i][1]) # <<>>
                          <=> VariantsOf(decls[i]) # <<>>)
                 /\ decls[i].type \notin {"Struct", "Enum"} =>
                      \E k \in DOMAIN blocks[i][1] :
                          blocks[i][1][k] = "    // Do nothing"

C3_Witness ==
    /\ generator = "list_node_ids"
    /\ \E i \in Processed :
          /\ decls[i].type = "Flag"
          /\ "list_node_ids" \in DOMAIN decls[i].attrs
          /\ blocks[i] # <<>>
    /\ \E i \in Processed : HasCustom(decls[i]) /\ blocks[i] = <<>>

\* A Struct declaration with more than one field marked kind.
Ambiguous(d) == d.type = "Struct" /\ NumMarked(d) >= 2

\* C5 as stated: when any Struct declaration of the list has more than one
\* field marked kind, the name-stringification generate call ends with the
\* error and returns no text.
C5_Original ==
    (generator = "ast_names" /\ pc = "done"
        /\ \E i \in DOMAIN decls : Ambiguous(decls[i]))
    => ret.result.raised

\* C5 amended: when any Struct declaration of the list has more than one
\* field marked kind and does not carry the no_kind marker, the
\* name-stringification generate call ends with the ambiguous-kind error of
\* the first such declaration and returns no text, wherever that declaration
\* sits in the list; a call that returns text has processed every
\* declaration.
C5_Amended ==
    (generator = "ast_names" /\ pc = "done") =>
        LET bad == {i \in DOMAIN decls :
                        Ambiguous(decls[i]) /\ ~HasNoKind(decls[i])}
        IN  /\ bad # {} =>
                 ret.result = AmbiguousKindField(
                     decls[CHOOSE i \in bad : \A j \in bad : i <= j])
            /\ ~ret.result.raised =>
                 /\ Len(blocks) = Len(decls)
                 /\ Len(ret.result.value) =
                        3 + Len(Flatten([i \in DOMAIN blocks |-> blocks[i][1]]))

C5_Witness ==
    /\ generator = "ast_names"
    /\ pc = "done"
    /\ Len(decls) = 2
    /\ decls[1].type = "Enum"
    /\ Ambiguous(decls[2])
    /\ ~HasNoKind(decls[2])
    /\ Len(blocks) = 1
    /\ ret.result.raised

\* The add_node_ids calls of an arm for variant v.
NodeIdCalls(v) ==
    [k \in DOMAIN v.fields |->
        "        ListNodeIds::add_node_ids(" \o v.fields[k].name
        \o ", node_id_list);"]

\* The lines that open the arms of declaration d, in declaration order.
ArmOpens(d) == [j \in DOMAIN VariantsOf(d) |-> ArmOpen(VariantsOf(d)[j], PathOf(d, j))]

\* C9: in the match of the name-stringification and child-node-id
\* generators a Struct gets exactly one arm, with the declaration name as
\* pattern path, and an Enum E one arm per case, in case order and without
\* deduplication, with pattern path E::C for case C; in the child-node-id
\* generator each arm holds one add_node_ids call per field, in field order.
C9_Arms ==
    \A i \in Processed :
        (decls[i].type \in {"Struct", "Enum"} /\ blocks[i] # <<>>) =>
            LET d == decls[i]
                body == MatchBody(blocks[i][1])
                IsOpenOrClose(l) ==
                    \/ l = ArmClose
                    \/ \E j \in DOMAIN VariantsOf(d), k \in DOMAIN VariantsOf(d) :
                          l = ArmOpen(VariantsOf(d)[j], PathOf(d, k))
                    \/ l = ArmOpen(VariantsOf(d)[1], d.name)
            IN  /\ generator = "ast_names" =>
                     SelectSeq(body, IsOpenOrClose) =
                        Flatten([j \in DOMAIN VariantsOf(d) |->
                                    <<ArmOpens(d)[j], ArmClose>>])
                /\ generator = "list_node_ids" =>
                     body = Flatten([j \in DOMAIN VariantsOf(d) |->
                                    <<ArmOpens(d)[j]>>
                                    \o NodeIdCalls(VariantsOf(d)[j])
                                    \o <<ArmClose>>])

C9_Witness ==
    /\ generator = "list_node_ids"
    /\ \E i \in Processed :
          /\ decls[i].type = "Enum"
          /\ Len(decls[i].variants) = 3
          /\ decls[i].variants[1].name = decls[i].variants[3].name
          /\ Len(decls[i].variants[2].fields) = 2
          /\ blocks[i] # <<>>
          /\ Len(MatchBody(blocks[i][1])) = 9
    /\ \E i \in Processed : decls[i].type = "Struct" /\ blocks[i] # <<>>

\* C10: a second run of a generator on the same declaration list whose banner
\* reads the same timestamp ends as the first run did, with the same text
\* (or the same error), and no step of a run changes the declaration list.
C10_Idempotent ==
    /\ []((run = 2 /\ pc = "done" /\ first.stamp = stamp)
            => ret.result = first.result)
    /\ [][decls' = decls]_vars

C10_Witness ==
    /\ run = 2
    /\ pc = "done"
    /\ first.stamp = stamp
    /\ Len(decls) = 2
    /\ ~ret.result.raised
    /\ ret.result = first.result
    /\ Len(ret.result.value) > 10

============================================================================
